---- MODULE Spec2Model ----
(***************************************************************************)
(* serde_sexpr: the S-expression Value tree, its printer (Display), its    *)
(* parser (FromStr, written with nom 4 combinators over CompleteStr) and   *)
(* the serde mapping between Value and typed data.                         *)
(*                                                                         *)
(* A text is a sequence of characters, a character a one-character string. *)
(***************************************************************************)
EXTENDS Integers, Sequences, FiniteSets

VARIABLES pc, text, value, layout, parsed, shape, typed, debug, result

vars == <<pc, text, value, layout, parsed, shape, typed, debug, result>>

(***************************************************************************)
(* Bounds of the model.                                                    *)
(***************************************************************************)
\* longest sequence or map, and largest tuple, that is serialized
MaxSeqLen == 2
\* longest text fed to the parser
MaxTextLen == 5
\* largest Value printed: one unit per node plus one per symbol character
MaxValueSize == 5
\* longest symbol deserialized as a primitive, apart from the chosen literals
MaxSymLen == 3

(***************************************************************************)
(* Characters.                                                             *)
(***************************************************************************)
Whitespace == {" ", "\n"}

Chars == {"a", " ", "\n", "(", ")", "|", "\\"}

\* char::is_whitespace
is_whitespace(ch) == ch \in Whitespace

\* lib.rs: ch.is_whitespace() || "()|\\".contains(ch)
needs_quoting(ch) == is_whitespace(ch) \/ ch \in {"(", ")", "|", "\\"}

doesnt_need_quoting(ch) == ~needs_quoting(ch)

(***************************************************************************)
(* Value: List(Vec<Value>) | Sym(String).  Both cases carry both fields so *)
(* that any two values are comparable.                                     *)
(***************************************************************************)
Sym(s) == [t |-> "Sym", s |-> s, l |-> <<>>]

List(l) == [t |-> "List", s |-> <<>>, l |-> l]

NoValue == [t |-> "None", s |-> <<>>, l |-> <<>>]

\* all texts of length exactly n over the alphabet cs
Strings(cs, n) == [1..n -> cs]

RECURSIVE ValuesOfSize(_), ListsOfSize(_)
ValuesOfSize(n) ==
    IF n <= 0 THEN {}
    ELSE {Sym(s) : s \in Strings(Chars, n - 1)}
         \cup {List(l) : l \in ListsOfSize(n - 1)}

ListsOfSize(n) ==
    IF n = 0 THEN {<<>>}
    ELSE UNION {{<<v>> \o r : v \in ValuesOfSize(k), r \in ListsOfSize(n - k)} : k \in 1..n}

Values == UNION {ValuesOfSize(n) : n \in 1..MaxValueSize}

Texts == UNION {Strings(Chars, n) : n \in 0..MaxTextLen}

(***************************************************************************)
(* Printer: impl Display for Value.                                        *)
(***************************************************************************)
RECURSIVE Concat(_)
Concat(ss) == IF ss = <<>> THEN <<>> ELSE Head(ss) \o Concat(Tail(ss))

\* fmt_sym that writes the quoted characters without their backslash
fmt_sym_unescaped(s) ==
    IF (\E i \in 1..Len(s) : needs_quoting(s[i])) \/ s = <<>>
    THEN <<"|">> \o s \o <<"|">>
    ELSE s

\* fmt_sym without the s.is_empty() test
fmt_sym_empty_bare(s) ==
    IF \E i \in 1..Len(s) : needs_quoting(s[i])
    THEN <<"|">>
         \o Concat([i \in 1..Len(s) |->
                (IF needs_quoting(s[i]) THEN <<"\\">> ELSE <<>>) \o <<s[i]>>])
         \o <<"|">>
    ELSE s

\* the Sym branch: quoted iff a character needs quoting or the symbol is empty
fmt_sym(s) ==
    IF (\E i \in 1..Len(s) : needs_quoting(s[i])) \/ s = <<>>
    THEN <<"|">>
         \o Concat([i \in 1..Len(s) |->
                (IF needs_quoting(s[i]) THEN <<"\\">> ELSE <<>>) \o <<s[i]>>])
         \o <<"|">>
    ELSE s

RECURSIVE to_string(_)

\* to_string that writes the separator before the first child too
to_string_sep_first(v) ==
    IF v.t = "List"
    THEN <<"(">>
         \o Concat([i \in 1..Len(v.l) |-> <<" ">> \o to_string(v.l[i])])
         \o <<")">>
    ELSE fmt_sym(v.s)

to_string(v) ==
    IF v.t = "List"
    THEN <<"(">>
         \o Concat([i \in 1..Len(v.l) |->
                (IF i = 1 THEN <<>> ELSE <<" ">>) \o to_string(v.l[i])])
         \o <<")">>
    ELSE fmt_sym(v.s)

(***************************************************************************)
(* Parser.  A parser takes the text and the position of the next unread    *)
(* character and returns ok, the position after what it consumed and its   *)
(* output (nom's IResult over CompleteStr: Incomplete never arises, and    *)
(* nothing here raises Err::Failure).                                      *)
(***************************************************************************)
POk(pos, out) == [ok |-> TRUE, pos |-> pos, out |-> out]

PErr(pos) == [ok |-> FALSE, pos |-> pos, out |-> NoValue]

\* the end of the longest run of characters satisfying the test from pos on
RECURSIVE RunEnd(_, _, _)
RunEnd(s, pos, ws) ==
    IF pos <= Len(s) /\ (IF ws THEN is_whitespace(s[pos]) ELSE doesnt_need_quoting(s[pos]))
    THEN RunEnd(s, pos + 1, ws)
    ELSE pos

\* take_while!(char::is_whitespace): never fails
ws(s, pos) == POk(RunEnd(s, pos, TRUE), NoValue)

\* char!(c): an error at the end of the input or on another character
char(s, pos, c) ==
    IF pos <= Len(s) /\ s[pos] = c THEN POk(pos + 1, NoValue) ELSE PErr(pos)

\* run1 that accepts the empty run, as take_while! does
run1_or_empty(s, pos) ==
    LET e == RunEnd(s, pos, FALSE) IN POk(e, SubSeq(s, pos, e - 1))

\* take_while1!(doesnt_need_quoting): the run, an error when it is empty
run1(s, pos) ==
    LET e == RunEnd(s, pos, FALSE)
    IN IF e = pos THEN PErr(pos) ELSE POk(e, SubSeq(s, pos, e - 1))

unescaped_sym(s, pos) ==
    LET r == run1(s, pos) IN IF r.ok THEN POk(r.pos, Sym(r.out)) ELSE PErr(pos)

unescaped_chs(s, pos) == run1(s, pos)

\* escaped_ch that escapes only the characters that need quoting
escaped_ch_only_quoting(s, pos) ==
    LET b == char(s, pos, "\\")
    IN IF ~b.ok THEN PErr(pos)
       ELSE IF b.pos > Len(s) THEN PErr(pos)
       ELSE IF doesnt_need_quoting(s[b.pos]) THEN PErr(pos)
       ELSE POk(b.pos + 1, <<s[b.pos]>>)

\* char!('\\') >> anychar
escaped_ch(s, pos) ==
    LET b == char(s, pos, "\\")
    IN IF ~b.ok THEN PErr(pos)
       ELSE IF b.pos > Len(s) THEN PErr(pos)
       ELSE POk(b.pos + 1, <<s[b.pos]>>)

\* alt_complete!(escaped_ch | unescaped_chs)
sym_chs(s, pos) ==
    LET a == escaped_ch(s, pos) IN IF a.ok THEN a ELSE unescaped_chs(s, pos)

\* many0!(sym_chs): collects until the first error
RECURSIVE many0_sym_chs(_, _, _)
many0_sym_chs(s, pos, acc) ==
    LET r == sym_chs(s, pos)
    IN IF ~r.ok THEN POk(pos, acc)
       ELSE IF r.pos = pos
            THEN (IF pos > Len(s) THEN POk(pos, acc) ELSE PErr(pos))
       ELSE many0_sym_chs(s, r.pos, acc \o r.out)

\* delimited!(char!('|'), many0!(sym_chs), char!('|'))
escaped_sym(s, pos) ==
    LET o == char(s, pos, "|")
    IN IF ~o.ok THEN PErr(pos)
       ELSE LET m == many0_sym_chs(s, o.pos, <<>>)
            IN IF ~m.ok THEN PErr(pos)
               ELSE LET c == char(s, m.pos, "|")
                    IN IF c.ok THEN POk(c.pos, Sym(m.out)) ELSE PErr(pos)

RECURSIVE value_p(_, _), list(_, _), list_body(_, _), list_rest(_, _, _)

\* list_rest that goes on after a separator that consumed nothing
list_rest_empty_sep(s, input, res) ==
    LET i2 == ws(s, input).pos
    IN LET e == value_p(s, i2)
       IN IF ~e.ok THEN POk(input, res)
          ELSE IF e.pos = i2 THEN POk(input, res)
          ELSE list_rest(s, e.pos, Append(res, e.out))

\* separated_list!(ws, value), after the first element: stops before a
\* separator that consumed nothing or that no element follows
list_rest(s, input, res) ==
    LET i2 == ws(s, input).pos
    IN IF i2 = input THEN POk(input, res)
       ELSE LET e == value_p(s, i2)
            IN IF ~e.ok THEN POk(input, res)
               ELSE IF e.pos = i2 THEN POk(input, res)
               ELSE list_rest(s, e.pos, Append(res, e.out))

\* separated_list!(ws, value)
list_body(s, pos) ==
    LET f == value_p(s, pos)
    IN IF ~f.ok THEN POk(pos, <<>>)
       ELSE IF f.pos = pos THEN PErr(pos)
       ELSE list_rest(s, f.pos, <<f.out>>)

\* list that skips whitespace after the open and before the close parenthesis
list_padded(s, pos) ==
    LET o == char(s, pos, "(")
    IN IF ~o.ok THEN PErr(pos)
       ELSE LET b == list_body(s, ws(s, o.pos).pos)
            IN IF ~b.ok THEN PErr(pos)
               ELSE LET c == char(s, ws(s, b.pos).pos, ")")
                    IN IF c.ok THEN POk(c.pos, List(b.out)) ELSE PErr(pos)

\* delimited!(char!('('), list_body, char!(')'))
list(s, pos) ==
    LET o == char(s, pos, "(")
    IN IF ~o.ok THEN PErr(pos)
       ELSE LET b == list_body(s, o.pos)
            IN IF ~b.ok THEN PErr(pos)
               ELSE LET c == char(s, b.pos, ")")
                    IN IF c.ok THEN POk(c.pos, List(b.out)) ELSE PErr(pos)

\* alt_complete!(list | escaped_sym | unescaped_sym)
value_p(s, pos) ==
    LET a == list(s, pos)
    IN IF a.ok THEN a
       ELSE LET b == escaped_sym(s, pos)
            IN IF b.ok THEN b ELSE unescaped_sym(s, pos)

\* eof!()
eof(s, pos) == IF pos > Len(s) THEN POk(pos, NoValue) ELSE PErr(pos)

\* do_parse!(ws >> v: value >> ws >> eof!() >> (v))
parser(s) ==
    LET v == value_p(s, ws(s, 1).pos)
    IN IF ~v.ok THEN PErr(1)
       ELSE LET e == eof(s, ws(s, v.pos).pos)
            IN IF e.ok THEN POk(e.pos, v.out) ELSE PErr(1)

ROk(v) == [tag |-> "Ok", v |-> v]

RErr(e) == [tag |-> e, v |-> NoValue]

NotRun == [tag |-> "NotRun", v |-> NoValue]

\* impl FromStr for Value
from_str(s) ==
    LET r == parser(s)
    IN IF r.ok
       THEN (IF r.pos > Len(s) THEN ROk(r.out) ELSE RErr("ParseTrailing"))
       ELSE RErr("ParseFailed")

(***************************************************************************)
(* Typed data and the shapes (Rust types) it is deserialized into.  A      *)
(* shape has a kind k, component shapes sub and the names of its fields or *)
(* variants; the variants of an enum are shapes of kind unit_variant,      *)
(* newtype_variant, tuple_variant and struct_variant.                      *)
(***************************************************************************)
Shape(k, sub, names) == [k |-> k, sub |-> sub, names |-> names]

Prim(k) == Shape(k, <<>>, <<>>)

NoShape == Prim("absent")

\* a typed datum: kind, text (string, char, variant name), number, components
Typed(k, s, n, items) == [k |-> k, s |-> s, n |-> n, items |-> items]

NoTyped == Typed("absent", <<>>, 0, <<>>)

\* Result<T>: Ok, Error::Invalid(name, value), Error::Custom (raised by a
\* serde visitor; name tells which), or a panic of the call
DOk(t) == [tag |-> "Ok", typed |-> t, name |-> "", bad |-> NoValue]

Invalid(name, v) == [tag |-> "Invalid", typed |-> NoTyped, name |-> name, bad |-> v]

Custom(what) == [tag |-> "Custom", typed |-> NoTyped, name |-> what, bad |-> NoValue]

Panic == [tag |-> "Panic", typed |-> NoTyped, name |-> "", bad |-> NoValue]

DNotRun == [tag |-> "NotRun", typed |-> NoTyped, name |-> "", bad |-> NoValue]

\* a SeqAccess / MapAccess answer that is Ok(None)
DNone == [tag |-> "None", typed |-> NoTyped, name |-> "", bad |-> NoValue]

(***************************************************************************)
(* FromStr of the primitive shapes (s.parse() in deserialize_generic).     *)
(***************************************************************************)
Digits == <<"0", "1", "2", "3", "4", "5", "6", "7", "8", "9">>

IsDigit(c) == \E d \in 1..10 : Digits[d] = c

DigitVal(c) == (CHOOSE d \in 1..10 : Digits[d] = c) - 1

\* the decimal value of a run of digits, -1 once it overflows a u8
RECURSIVE u8_digits(_, _)
u8_digits(s, acc) ==
    IF s = <<>> THEN acc
    ELSE IF ~IsDigit(Head(s)) THEN -1
    ELSE LET n == acc * 10 + DigitVal(Head(s))
         IN IF n > 255 THEN -1 ELSE u8_digits(Tail(s), n)

\* u8::from_str: an optional plus sign, then at least one digit
u8_from_str(s) ==
    LET d == IF s # <<>> /\ Head(s) = "+" THEN Tail(s) ELSE s
    IN IF d = <<>> THEN -1 ELSE u8_digits(d, 0)

\* the digits of a signed integer, accumulated away from zero on the side of
\* the sign; an invalid digit or a value outside i8 is an error
RECURSIVE i8_digits(_, _, _)
i8_digits(s, acc, is_positive) ==
    IF s = <<>> THEN [ok |-> TRUE, n |-> acc]
    ELSE IF ~IsDigit(Head(s)) THEN [ok |-> FALSE, n |-> 0]
    ELSE LET n == IF is_positive THEN acc * 10 + DigitVal(Head(s))
                  ELSE acc * 10 - DigitVal(Head(s))
         IN IF n > 127 \/ n < -128 THEN [ok |-> FALSE, n |-> 0]
            ELSE i8_digits(Tail(s), n, is_positive)

\* i8::from_str: an optional plus or minus sign, then at least one digit
i8_from_str(s) ==
    LET is_positive == ~(s # <<>> /\ Head(s) = "-")
        d == IF s # <<>> /\ Head(s) \in {"+", "-"} THEN Tail(s) ELSE s
    IN IF d = <<>> THEN [ok |-> FALSE, n |-> 0] ELSE i8_digits(d, 0, is_positive)

\* parse_prim that takes the first character of a longer symbol for a char
parse_prim_first_char(name, s) ==
    CASE name = "bool" ->
            IF s = <<"t", "r", "u", "e">> THEN Typed("bool", <<>>, 1, <<>>)
            ELSE IF s = <<"f", "a", "l", "s", "e">> THEN Typed("bool", <<>>, 0, <<>>)
            ELSE NoTyped
      [] name = "u8" ->
            IF u8_from_str(s) >= 0 THEN Typed("u8", <<>>, u8_from_str(s), <<>>) ELSE NoTyped
      [] name = "i8" ->
            IF i8_from_str(s).ok THEN Typed("i8", <<>>, i8_from_str(s).n, <<>>) ELSE NoTyped
      [] name = "char" ->
            IF Len(s) >= 1 THEN Typed("char", <<s[1]>>, 0, <<>>) ELSE NoTyped
      [] OTHER -> Typed("string", s, 0, <<>>)

\* T::from_str for the shape named name: the typed value, or NoTyped
parse_prim(name, s) ==
    CASE name = "bool" ->
            IF s = <<"t", "r", "u", "e">> THEN Typed("bool", <<>>, 1, <<>>)
            ELSE IF s = <<"f", "a", "l", "s", "e">> THEN Typed("bool", <<>>, 0, <<>>)
            ELSE NoTyped
      [] name = "u8" ->
            IF u8_from_str(s) >= 0 THEN Typed("u8", <<>>, u8_from_str(s), <<>>) ELSE NoTyped
      [] name = "i8" ->
            IF i8_from_str(s).ok THEN Typed("i8", <<>>, i8_from_str(s).n, <<>>) ELSE NoTyped
      [] name = "char" ->
            IF Len(s) = 1 THEN Typed("char", s, 0, <<>>) ELSE NoTyped
      [] OTHER -> Typed("string", s, 0, <<>>)

\* Value::deserialize_generic
deserialize_generic(self, name) ==
    IF self.t = "List" THEN Invalid(name, self)
    ELSE IF parse_prim(name, self.s) = NoTyped THEN Invalid(name, self)
    ELSE DOk(parse_prim(name, self.s))

(***************************************************************************)
(* Deserializer for Value (de.rs), driven by the visitors serde and its    *)
(* derive generate for each shape.  dbg tells whether debug assertions are *)
(* compiled in.                                                            *)
(***************************************************************************)
Reverse(l) == [i \in 1..Len(l) |-> l[Len(l) + 1 - i]]

\* Vec::pop: the vector without its last element
Popped(vs) == SubSeq(vs, 1, Len(vs) - 1)

Last(vs) == vs[Len(vs)]

\* the index of name among names, 0 when it is none of them
IndexOf(names, name) ==
    IF \E i \in 1..Len(names) : names[i] = name
    THEN CHOOSE i \in 1..Len(names) : names[i] = name
    ELSE 0

RECURSIVE from_value(_, _, _), visit_seq_vec(_, _, _, _), visit_seq_tuple(_, _, _, _, _),
          visit_seq_ignored(_, _), visit_map(_, _, _, _), visit_struct(_, _, _, _)

\* SeqAccess::next_element_seed on the (reversed) elements vs
next_element_seed(vs, seed, dbg) ==
    IF vs = <<>> THEN DNone ELSE from_value(Last(vs), seed, dbg)

\* Vec<T>'s visitor: elements until SeqAccess answers None
visit_seq_vec(vs, elem, dbg, acc) ==
    LET r == next_element_seed(vs, elem, dbg)
    IN IF r.tag = "None" THEN DOk(Typed("seq", <<>>, 0, acc))
       ELSE IF r.tag # "Ok" THEN r
       ELSE visit_seq_vec(Popped(vs), elem, dbg, Append(acc, r.typed))

\* a tuple's visitor: one element per component, invalid_length when
\* SeqAccess answers None early; it asks for no element after the last
visit_seq_tuple(vs, target, dbg, i, acc) ==
    IF i > Len(target.sub) THEN DOk(Typed(target.k, <<>>, 0, acc))
    ELSE LET r == next_element_seed(vs, target.sub[i], dbg)
         IN IF r.tag = "None" THEN Custom("invalid_length")
            ELSE IF r.tag # "Ok" THEN r
            ELSE visit_seq_tuple(Popped(vs), target, dbg, i + 1, Append(acc, r.typed))

\* IgnoredAny's visitor
visit_seq_ignored(vs, dbg) ==
    LET r == next_element_seed(vs, Prim("ignored"), dbg)
    IN IF r.tag = "None" THEN DOk(Typed("ignored", <<>>, 0, <<>>))
       ELSE IF r.tag # "Ok" THEN r
       ELSE visit_seq_ignored(Popped(vs), dbg)

\* Deserializer::deserialize_seq (and deserialize_tuple, deserialize_tuple_struct)
deserialize_seq(self, target, dbg) ==
    IF self.t = "List"
    THEN LET vs == Reverse(self.l)
         IN CASE target.k = "seq" -> visit_seq_vec(vs, target.sub[1], dbg, <<>>)
              [] target.k = "ignored" -> visit_seq_ignored(vs, dbg)
              [] OTHER -> visit_seq_tuple(vs, target, dbg, 1, <<>>)
    ELSE Invalid("sequence", self)

\* next_key_seed that takes any child of two or more elements for a pair
next_key_seed_longer(vs, seed, dbg) ==
    IF vs = <<>> THEN [r |-> DNone, pending |-> NoValue]
    ELSE LET child == Last(vs)
         IN IF child.t = "List"
            THEN IF Len(child.l) >= 2
                 THEN [r |-> from_value(Last(Popped(child.l)), seed, dbg),
                       pending |-> Last(child.l)]
                 ELSE [r |-> Invalid("pair", child), pending |-> NoValue]
            ELSE [r |-> Invalid("pair", child), pending |-> NoValue]

\* MapAccess::next_key_seed on the (reversed) children vs: the key's result
\* and the value left pending in self.1
next_key_seed(vs, seed, dbg) ==
    IF vs = <<>> THEN [r |-> DNone, pending |-> NoValue]
    ELSE LET child == Last(vs)
         IN IF child.t = "List"
            THEN IF Len(child.l) = 2
                 THEN [r |-> from_value(Popped(child.l)[1], seed, dbg),
                       pending |-> Last(child.l)]
                 ELSE [r |-> Invalid("pair", child), pending |-> NoValue]
            ELSE [r |-> Invalid("pair", child), pending |-> NoValue]

\* MapAccess::next_value_seed
next_value_seed(pending, seed, dbg) == from_value(pending, seed, dbg)

\* a map's visitor: next_entry until MapAccess answers None
visit_map(vs, target, dbg, acc) ==
    LET k == next_key_seed(vs, target.sub[1], dbg)
    IN IF k.r.tag = "None" THEN DOk(Typed("map", <<>>, 0, acc))
       ELSE IF k.r.tag # "Ok" THEN k.r
       ELSE LET v == next_value_seed(k.pending, target.sub[2], dbg)
            IN IF v.tag # "Ok" THEN v
               ELSE visit_map(Popped(vs), target, dbg,
                              Append(acc, Typed("entry", <<>>, 0, <<k.r.typed, v.typed>>)))

\* the value of a field no entry gave: None for an Option, else missing_field
MissingField(fshape) ==
    IF fshape.k = "option" THEN Typed("none", <<>>, 0, <<>>) ELSE NoTyped

\* a derived struct's visitor: each key is read as a field identifier; a
\* known field is read once, an unknown one is skipped as IgnoredAny
visit_struct(vs, target, dbg, slots) ==
    LET k == next_key_seed(vs, Prim("string"), dbg)
    IN IF k.r.tag = "None"
       THEN IF \E i \in 1..Len(slots) :
                   slots[i] = NoTyped /\ MissingField(target.sub[i]) = NoTyped
            THEN Custom("missing_field")
            ELSE DOk(Typed(target.k, <<>>, 0,
                     [i \in 1..Len(slots) |->
                        IF slots[i] = NoTyped THEN MissingField(target.sub[i]) ELSE slots[i]]))
       ELSE IF k.r.tag # "Ok" THEN k.r
       ELSE LET f == IndexOf(target.names, k.r.typed.s)
            IN IF f = 0
               THEN LET v == next_value_seed(k.pending, Prim("ignored"), dbg)
                    IN IF v.tag # "Ok" THEN v
                       ELSE visit_struct(Popped(vs), target, dbg, slots)
               ELSE IF slots[f] # NoTyped THEN Custom("duplicate_field")
               ELSE LET v == next_value_seed(k.pending, target.sub[f], dbg)
                    IN IF v.tag # "Ok" THEN v
                       ELSE visit_struct(Popped(vs), target, dbg,
                                         [slots EXCEPT ![f] = v.typed])

\* Deserializer::deserialize_map (and deserialize_struct)
deserialize_map(self, target, dbg) ==
    IF self.t = "List"
    THEN LET vs == Reverse(self.l)
         IN IF target.k = "map"
            THEN visit_map(vs, target, dbg, <<>>)
            ELSE visit_struct(vs, target, dbg, [i \in 1..Len(target.sub) |-> NoTyped])
    ELSE Invalid("map", self)

\* deserialize_option that takes every List for None
deserialize_option_any_list(self, target, dbg) ==
    IF self.t = "List"
    THEN DOk(Typed("none", <<>>, 0, <<>>))
    ELSE LET r == from_value(self, target.sub[1], dbg)
         IN IF r.tag # "Ok" THEN r ELSE DOk(Typed("some", <<>>, 0, <<r.typed>>))

\* deserialize_option that takes every Value for a present optional
deserialize_option_always_some(self, target, dbg) ==
    LET r == from_value(self, target.sub[1], dbg)
    IN IF r.tag # "Ok" THEN r ELSE DOk(Typed("some", <<>>, 0, <<r.typed>>))

\* Deserializer::deserialize_option
deserialize_option(self, target, dbg) ==
    IF self.t = "List" /\ self.l = <<>>
    THEN DOk(Typed("none", <<>>, 0, <<>>))
    ELSE LET r == from_value(self, target.sub[1], dbg)
         IN IF r.tag # "Ok" THEN r ELSE DOk(Typed("some", <<>>, 0, <<r.typed>>))

\* deserialize_unit that wants a Symbol
deserialize_unit_of_sym(self, target) ==
    IF self.t = "Sym"
    THEN DOk(Typed(target.k, <<>>, 0, <<>>))
    ELSE Invalid("unit", self)

\* Deserializer::deserialize_unit (and deserialize_unit_struct)
deserialize_unit(self, target) ==
    IF self.t = "List" /\ self.l = <<>>
    THEN DOk(Typed(target.k, <<>>, 0, <<>>))
    ELSE Invalid("unit", self)

\* Deserializer::deserialize_newtype_struct
deserialize_newtype_struct(self, target, dbg) ==
    LET r == from_value(self, target.sub[1], dbg)
    IN IF r.tag # "Ok" THEN r ELSE DOk(Typed(target.k, <<>>, 0, <<r.typed>>))

\* Deserializer::deserialize_any, as IgnoredAny calls it
deserialize_any(self, dbg) ==
    IF self.t = "List" THEN deserialize_seq(self, Prim("ignored"), dbg)
    ELSE LET r == deserialize_generic(self, "string")
         IN IF r.tag # "Ok" THEN r ELSE DOk(Typed("ignored", <<>>, 0, <<>>))

\* VariantAccess(Option<Vec<Value>>)
SomeVs(vs) == [some |-> TRUE, vs |-> vs]

NoneVs == [some |-> FALSE, vs |-> <<>>]

\* variant_seed that leaves the name among the payload
variant_seed_keeps_name(self, dbg) ==
    IF self.t = "List"
    THEN IF self.l = <<>>
         THEN [r |-> Invalid("enum", List(<<>>)), access |-> NoneVs]
         ELSE [r |-> deserialize_generic(Head(self.l), "string"),
               access |-> SomeVs(self.l)]
    ELSE [r |-> deserialize_generic(self, "string"), access |-> NoneVs]

\* EnumAccess::variant_seed: the variant's name, read as an identifier, and
\* the VariantAccess holding what follows the name
variant_seed(self, dbg) ==
    IF self.t = "List"
    THEN IF self.l = <<>>
         THEN [r |-> Invalid("enum", List(<<>>)), access |-> NoneVs]
         ELSE [r |-> deserialize_generic(Head(self.l), "string"),
               access |-> SomeVs(Tail(self.l))]
    ELSE [r |-> deserialize_generic(self, "string"), access |-> NoneVs]

\* VariantAccess::unit_variant
unit_variant(access, dbg) ==
    IF dbg /\ access.some THEN Panic ELSE DOk(NoTyped)

\* VariantAccess::newtype_variant_seed
newtype_variant_seed(access, seed, dbg) ==
    IF ~access.some THEN Panic
    ELSE IF dbg /\ Len(access.vs) # 1 THEN Panic
    ELSE IF access.vs = <<>> THEN Panic
    ELSE from_value(Last(access.vs), seed, dbg)

\* VariantAccess::tuple_variant
tuple_variant(access, target, dbg) ==
    IF ~access.some THEN Panic ELSE deserialize_seq(List(access.vs), target, dbg)

\* VariantAccess::struct_variant
struct_variant(access, target, dbg) ==
    IF ~access.some THEN Panic ELSE deserialize_map(List(access.vs), target, dbg)

\* Deserializer::deserialize_enum with a derived enum's visitor: the name
\* selects the variant, whose kind selects the VariantAccess method
deserialize_enum(self, target, dbg) ==
    LET v == variant_seed(self, dbg)
    IN IF v.r.tag # "Ok" THEN v.r
       ELSE LET i == IndexOf(target.names, v.r.typed.s)
            IN IF i = 0 THEN Custom("unknown_variant")
               ELSE LET var == target.sub[i]
                        r == CASE var.k = "unit_variant" -> unit_variant(v.access, dbg)
                               [] var.k = "newtype_variant" ->
                                     newtype_variant_seed(v.access, var.sub[1], dbg)
                               [] var.k = "tuple_variant" -> tuple_variant(v.access, var, dbg)
                               [] OTHER -> struct_variant(v.access, var, dbg)
                    IN IF r.tag # "Ok" THEN r
                       ELSE DOk(Typed("variant", target.names[i], 0,
                                CASE var.k = "unit_variant" -> <<>>
                                  [] var.k = "newtype_variant" -> <<r.typed>>
                                  [] OTHER -> r.typed.items))

\* from_value: T::deserialize(value) for the type T of the given shape
from_value(self, target, dbg) ==
    CASE target.k \in {"bool", "u8", "i8", "char", "string"} ->
            deserialize_generic(self, target.k)
      [] target.k \in {"unit", "unit_struct"} -> deserialize_unit(self, target)
      [] target.k = "option" -> deserialize_option(self, target, dbg)
      [] target.k = "newtype_struct" -> deserialize_newtype_struct(self, target, dbg)
      [] target.k \in {"seq", "tuple", "tuple_struct"} -> deserialize_seq(self, target, dbg)
      [] target.k \in {"map", "struct"} -> deserialize_map(self, target, dbg)
      [] target.k = "enum" -> deserialize_enum(self, target, dbg)
      [] OTHER -> deserialize_any(self, dbg)

(***************************************************************************)
(* Serializer (ser.rs), driven by the Serialize impls serde and its derive *)
(* generate for each shape.                                                *)
(***************************************************************************)
\* Display of an unsigned integer
RECURSIVE decimal(_)
decimal(n) ==
    IF n < 10 THEN <<Digits[n + 1]>> ELSE decimal(n \div 10) \o <<Digits[(n % 10) + 1]>>

\* serialize_generic: Value::Sym(value.to_string())
serialize_generic(t) ==
    CASE t.k = "bool" ->
            Sym(IF t.n = 1 THEN <<"t", "r", "u", "e">> ELSE <<"f", "a", "l", "s", "e">>)
      [] t.k = "u8" -> Sym(decimal(t.n))
      [] t.k = "i8" -> Sym(IF t.n < 0 THEN <<"-">> \o decimal(0 - t.n) ELSE decimal(t.n))
      [] OTHER -> Sym(t.s)

\* MapSerializer(Vec<Value>, Option<Value>)
MapSerializer(vec, key) == [vec |-> vec, key |-> key]

\* SerializeMap::serialize_key: the key is kept pending
serialize_key(self, k) == MapSerializer(self.vec, k)

\* serialize_value that pushes the key and the value as two children
serialize_value_flat(self, v) == MapSerializer(self.vec \o <<self.key, v>>, NoValue)

\* SerializeMap::serialize_value: pushes the pair of the pending key and v
serialize_value(self, v) == MapSerializer(Append(self.vec, List(<<self.key, v>>)), NoValue)

RECURSIVE to_value(_, _), serialize_elements(_, _, _, _), serialize_entries(_, _, _, _),
          serialize_fields(_, _, _, _)

\* serialize_elements that puts each mapping in front of the earlier ones
serialize_elements_prepend(vec, items, shapeOf, i) ==
    IF i > Len(items) THEN vec
    ELSE serialize_elements(<<to_value(items[i], shapeOf[i])>> \o vec, items, shapeOf, i + 1)

\* ListSerializer: serialize_element / serialize_field pushes each mapping
serialize_elements(vec, items, shapeOf, i) ==
    IF i > Len(items) THEN vec
    ELSE serialize_elements(Append(vec, to_value(items[i], shapeOf[i])), items, shapeOf, i + 1)

\* a map's Serialize impl: serialize_key then serialize_value per entry
serialize_entries(self, entries, target, i) ==
    IF i > Len(entries) THEN self
    ELSE serialize_entries(
            serialize_value(serialize_key(self, to_value(entries[i].items[1], target.sub[1])),
                            to_value(entries[i].items[2], target.sub[2])),
            entries, target, i + 1)

\* SerializeStruct / SerializeStructVariant::serialize_field per field
serialize_fields(self, items, target, i) ==
    IF i > Len(items) THEN self
    ELSE serialize_fields(
            serialize_value(serialize_key(self, Sym(target.names[i])),
                            to_value(items[i], target.sub[i])),
            items, target, i + 1)

\* to_value: value.serialize(Serializer)
to_value(t, target) ==
    CASE target.k \in {"bool", "u8", "i8", "char", "string"} -> serialize_generic(t)
      [] target.k \in {"unit", "unit_struct"} -> List(<<>>)
      [] target.k = "option" ->
            IF t.k = "none" THEN List(<<>>) ELSE to_value(t.items[1], target.sub[1])
      [] target.k = "newtype_struct" -> to_value(t.items[1], target.sub[1])
      [] target.k = "seq" ->
            List(serialize_elements(<<>>, t.items, [i \in 1..Len(t.items) |-> target.sub[1]], 1))
      [] target.k \in {"tuple", "tuple_struct"} ->
            List(serialize_elements(<<>>, t.items, target.sub, 1))
      [] target.k = "map" ->
            List(serialize_entries(MapSerializer(<<>>, NoValue), t.items, target, 1).vec)
      [] target.k = "struct" ->
            List(serialize_fields(MapSerializer(<<>>, NoValue), t.items, target, 1).vec)
      [] OTHER ->
            LET var == target.sub[IndexOf(target.names, t.s)]
            IN CASE var.k = "unit_variant" -> Sym(t.s)
                 [] var.k = "newtype_variant" ->
                       List(<<Sym(t.s), to_value(t.items[1], var.sub[1])>>)
                 [] var.k = "tuple_variant" ->
                       List(serialize_elements(<<Sym(t.s)>>, t.items, var.sub, 1))
                 [] OTHER ->
                       List(serialize_fields(MapSerializer(<<Sym(t.s)>>, NoValue),
                                             t.items, var, 1).vec)

(***************************************************************************)
(* Spec: a Value is printed and the printed text is parsed back            *)
(* (tests.rs, parse_of_to_string).                                         *)
(***************************************************************************)
NoLayout == [gap |-> -1, run |-> <<>>]

Init ==
    /\ pc = "value"
    /\ value \in Values
    /\ text = <<>>
    /\ layout = NoLayout
    /\ parsed = NotRun
    /\ shape = NoShape
    /\ typed = NoTyped
    /\ debug = FALSE
    /\ result = DNotRun

ToString ==
    /\ pc = "value"
    /\ text' = to_string(value)
    /\ pc' = "printed"
    /\ UNCHANGED <<value, layout, parsed, shape, typed, debug, result>>

Parse ==
    /\ pc = "printed"
    /\ parsed' = from_str(text)
    /\ pc' = "parsed"
    /\ UNCHANGED <<text, value, layout, shape, typed, debug, result>>

Next == ToString \/ Parse

Spec == Init /\ [][Next]_vars

(***************************************************************************)
(* SpecText: an arbitrary text is parsed (fuzz_target_1).                  *)
(***************************************************************************)
InitText ==
    /\ pc = "text"
    /\ text \in Texts
    /\ value = NoValue
    /\ layout = NoLayout
    /\ parsed = NotRun
    /\ shape = NoShape
    /\ typed = NoTyped
    /\ debug = FALSE
    /\ result = DNotRun

ParseText ==
    /\ pc = "text"
    /\ parsed' = from_str(text)
    /\ pc' = "parsed"
    /\ UNCHANGED <<text, value, layout, shape, typed, debug, result>>

NextText == ParseText

SpecText == InitText /\ [][NextText]_vars

(***************************************************************************)
(* SpecList: a List is written out as the printer writes it, except that   *)
(* one gap of the list (gap 0 after the open parenthesis, gap i after the  *)
(* i-th element) holds a chosen run of whitespace, and the text is parsed. *)
(***************************************************************************)
GapRuns == {<<>>, <<" ">>, <<"\n">>, <<" ", "\n">>}

Written(v, g, run) ==
    LET n == Len(v.l)
        before(i) == IF i - 1 = g THEN run ELSE IF i = 1 THEN <<>> ELSE <<" ">>
    IN <<"(">>
       \o Concat([i \in 1..n |-> before(i) \o to_string(v.l[i])])
       \o (IF g = n THEN run ELSE <<>>)
       \o <<")">>

InitList ==
    /\ pc = "value"
    /\ value \in {v \in Values : v.t = "List"}
    /\ text = <<>>
    /\ layout = NoLayout
    /\ parsed = NotRun
    /\ shape = NoShape
    /\ typed = NoTyped
    /\ debug = FALSE
    /\ result = DNotRun

Write ==
    /\ pc = "value"
    /\ \E g \in 0..Len(value.l), run \in GapRuns :
          /\ layout' = [gap |-> g, run |-> run]
          /\ text' = Written(value, g, run)
    /\ pc' = "written"
    /\ UNCHANGED <<value, parsed, shape, typed, debug, result>>

ParseList ==
    /\ pc = "written"
    /\ parsed' = from_str(text)
    /\ pc' = "parsed"
    /\ UNCHANGED <<text, value, layout, shape, typed, debug, result>>

NextList == Write \/ ParseList

SpecList == InitList /\ [][NextList]_vars

(***************************************************************************)
(* SpecDe: a typed datum is serialized (ser.rs to_string: the Value and its *)
(* text), the Value may be changed in one place, and it is deserialized    *)
(* against the datum's shape (de.rs from_value).                           *)
(***************************************************************************)
U8 == Prim("u8")

Char == Prim("char")

Str == Prim("string")

Option(x) == Shape("option", <<x>>, <<>>)

Vec(x) == Shape("seq", <<x>>, <<>>)

\* the tuple (u8, char, u8, ..) of n components
TupleOf(k, n) == Shape(k, [i \in 1..n |-> IF i % 2 = 1 THEN U8 ELSE Char], <<>>)

\* enum Foo { U, N(u8), T(u8, char), S { f: u8, g: char } }
Foo ==
    Shape("enum",
          <<Prim("unit_variant"),
            Shape("newtype_variant", <<U8>>, <<>>),
            TupleOf("tuple_variant", 2),
            Shape("struct_variant", <<U8, Char>>, <<<<"f">>, <<"g">>>>)>>,
          <<<<"U">>, <<"N">>, <<"T">>, <<"S">>>>)

Shapes ==
    {Prim("bool"), U8, Char, Str, Prim("unit"), Prim("unit_struct"),
     Option(U8), Option(Str), Option(Prim("unit")), Option(Vec(U8)), Option(Option(U8)),
     Shape("newtype_struct", <<U8>>, <<>>),
     Vec(U8), Vec(Vec(Prim("unit"))),
     Shape("map", <<Char, U8>>, <<>>),
     Shape("struct", <<U8, Char>>, <<<<"f">>, <<"g">>>>),
     Shape("struct", <<U8, Option(Char)>>, <<<<"f">>, <<"g">>>>),
     Foo}
    \cup {TupleOf(k, n) : k \in {"tuple", "tuple_struct"}, n \in 1..MaxSeqLen}

\* the sequences of at most n members of the set xs
SeqsUpTo(xs, n) == UNION {[1..m -> xs] : m \in 0..n}

\* the tuples whose i-th component is drawn from sets[i]
RECURSIVE Product(_)
Product(sets) ==
    IF sets = <<>> THEN {<<>>}
    ELSE {<<x>> \o r : x \in Head(sets), r \in Product(Tail(sets))}

\* the typed data of a shape, within the bounds
RECURSIVE TypedOf(_)
TypedOf(sh) ==
    CASE sh.k = "bool" -> {Typed("bool", <<>>, n, <<>>) : n \in {0, 1}}
      [] sh.k = "u8" -> {Typed("u8", <<>>, n, <<>>) : n \in {1, 42}}
      [] sh.k = "char" -> {Typed("char", <<c>>, 0, <<>>) : c \in {"a", "1"}}
      [] sh.k = "string" -> {Typed("string", t, 0, <<>>) : t \in {<<>>, <<"a">>, <<"a", " ">>}}
      [] sh.k \in {"unit", "unit_struct", "unit_variant"} -> {Typed(sh.k, <<>>, 0, <<>>)}
      [] sh.k = "option" ->
            {Typed("none", <<>>, 0, <<>>)}
            \cup {Typed("some", <<>>, 0, <<x>>) : x \in TypedOf(sh.sub[1])}
      [] sh.k = "seq" ->
            {Typed("seq", <<>>, 0, xs) : xs \in SeqsUpTo(TypedOf(sh.sub[1]), MaxSeqLen)}
      [] sh.k = "map" ->
            {Typed("map", <<>>, 0, es) :
                es \in SeqsUpTo({Typed("entry", <<>>, 0, <<k, v>>) :
                                    k \in TypedOf(sh.sub[1]), v \in TypedOf(sh.sub[2])},
                                MaxSeqLen)}
      [] sh.k = "enum" ->
            UNION {{Typed("variant", sh.names[i], 0,
                          IF sh.sub[i].k = "unit_variant" THEN <<>> ELSE x.items) :
                        x \in TypedOf(sh.sub[i])} : i \in 1..Len(sh.sub)}
      [] OTHER ->
            {Typed(sh.k, <<>>, 0, xs) :
                xs \in Product([i \in 1..Len(sh.sub) |-> TypedOf(sh.sub[i])])}

\* what a changed place of the document may hold
EditLeaves ==
    {List(<<>>)} \cup {Sym(t) : t \in {<<>>, <<"a">>, <<"1">>, <<"N">>, <<"f">>}}

\* the documents that differ from v in one place: a subtree replaced by a
\* leaf or wrapped in a list, or a child of a list removed or inserted
RECURSIVE Edits(_)
Edits(v) ==
    (EditLeaves \ {v})
    \cup {List(<<v>>)}
    \cup (IF v.t = "List"
          THEN {List(SubSeq(v.l, 1, i - 1) \o SubSeq(v.l, i + 1, Len(v.l))) : i \in 1..Len(v.l)}
               \cup {List(SubSeq(v.l, 1, i) \o <<x>> \o SubSeq(v.l, i + 1, Len(v.l))) :
                        i \in 0..Len(v.l), x \in EditLeaves}
               \cup UNION {{List([v.l EXCEPT ![i] = c]) : c \in Edits(v.l[i])} :
                              i \in 1..Len(v.l)}
          ELSE {})

InitDe ==
    /\ pc = "typed"
    /\ shape \in Shapes
    /\ typed \in TypedOf(shape)
    /\ text = <<>>
    /\ value = NoValue
    /\ layout = NoLayout
    /\ parsed = NotRun
    /\ debug = FALSE
    /\ result = DNotRun

\* ser.rs to_string: to_value(value).map(|v| v.to_string())
Serialize ==
    /\ pc = "typed"
    /\ value' = to_value(typed, shape)
    /\ text' = to_string(value')
    /\ pc' = "value"
    /\ UNCHANGED <<layout, parsed, shape, typed, debug, result>>

Edit ==
    /\ pc = "value"
    /\ value' \in Edits(value)
    /\ text' = to_string(value')
    /\ pc' = "edited"
    /\ UNCHANGED <<layout, parsed, shape, typed, debug, result>>

\* de.rs from_value, in a build with or without debug assertions
Deserialize ==
    /\ pc \in {"value", "edited"}
    /\ debug' \in BOOLEAN
    /\ result' = from_value(value, shape, debug')
    /\ pc' = "done"
    /\ UNCHANGED <<text, value, layout, parsed, shape, typed>>

NextDe == Serialize \/ Edit \/ Deserialize

SpecDe == InitDe /\ [][NextDe]_vars

(***************************************************************************)
(* SpecRound: an optional datum is serialized and what was written is      *)
(* deserialized as the same optional type (ser.rs to_value, de.rs          *)
(* from_value).                                                            *)
(***************************************************************************)
RoundShapes == {Option(x) : x \in Shapes \cup {Vec(Option(Prim("unit")))}}

InitRound ==
    /\ pc = "typed"
    /\ shape \in RoundShapes
    /\ typed \in TypedOf(shape)
    /\ text = <<>>
    /\ value = NoValue
    /\ layout = NoLayout
    /\ parsed = NotRun
    /\ debug = FALSE
    /\ result = DNotRun

NextRound == Serialize \/ Deserialize

SpecRound == InitRound /\ [][NextRound]_vars

(***************************************************************************)
(* SpecPrim: a Value, a Symbol of any short content or a List, is          *)
(* deserialized against a primitive shape (de.rs from_value).              *)
(***************************************************************************)
I8 == Prim("i8")

PrimShapes == {Prim("bool"), U8, I8, Char, Str}

PrimChars == {"0", "1", "2", "5", "6", "+", "-", "a"}

PrimLiterals ==
    {<<"t", "r", "u", "e">>, <<"f", "a", "l", "s", "e">>, <<"T", "r", "u", "e">>,
     <<"a", "b", "c">>, <<"+", "2", "5", "5">>, <<"0", "2", "5", "5">>, <<"-", "1", "2", "8">>,
     <<"-", "1", "2", "9">>, <<"1", "2", "7">>, <<"1", "2", "8">>, <<"1", " ">>}

PrimSymbols == UNION {Strings(PrimChars, n) : n \in 0..MaxSymLen} \cup PrimLiterals

PrimValues ==
    {Sym(s) : s \in PrimSymbols}
    \cup {List(<<>>)}
    \cup {List(<<Sym(s)>>) : s \in PrimLiterals}

InitPrim ==
    /\ pc = "value"
    /\ shape \in PrimShapes
    /\ value \in PrimValues
    /\ text = <<>>
    /\ typed = NoTyped
    /\ layout = NoLayout
    /\ parsed = NotRun
    /\ debug = FALSE
    /\ result = DNotRun

NextPrim == Deserialize

SpecPrim == InitPrim /\ [][NextPrim]_vars

(***************************************************************************)
(* Claims of the printer and the parser.                                   *)
(***************************************************************************)

\* C1: printing any Value and parsing the printed text succeeds and gives
\* back an equal Value.
RoundTrip == pc = "parsed" => parsed = ROk(value)

RoundTripWitness ==
    /\ pc = "parsed"
    /\ parsed = ROk(value)
    /\ value.t = "List"
    /\ \E i, j \in 1..Len(value.l) :
          /\ value.l[i].t = "List"
          /\ value.l[j].t = "Sym"
          /\ \E k \in 1..Len(value.l[j].s) : needs_quoting(value.l[j].s[k])

\* C2 (as claimed): a text that holds one well-formed value and then further
\* content that is not whitespace parses to ParseTrailing, a text that holds
\* no value parses to ParseFailed.
ValueThenMore(s) ==
    LET v == value_p(s, ws(s, 1).pos)
    IN v.ok /\ ws(s, v.pos).pos <= Len(s)

TrailingInputIsDistinct ==
    pc = "parsed" =>
        /\ ValueThenMore(text) => parsed.tag = "ParseTrailing"
        /\ ~value_p(text, ws(text, 1).pos).ok => parsed.tag = "ParseFailed"

\* C3: a symbol that is not empty and has no quoting-significant character
\* prints verbatim; any other symbol prints between vertical bars with a
\* backslash before exactly its quoting-significant characters.
QuotingSignificant == {" ", "\n", "(", ")", "|", "\\"}

RECURSIVE EscapedBody(_)
EscapedBody(s) ==
    IF s = <<>> THEN <<>>
    ELSE (IF Head(s) \in QuotingSignificant THEN <<"\\", Head(s)>> ELSE <<Head(s)>>)
         \o EscapedBody(Tail(s))

SymbolPrinting ==
    (pc = "printed" /\ value.t = "Sym") =>
        /\ IF value.s # <<>> /\ \A i \in 1..Len(value.s) : value.s[i] \notin QuotingSignificant
           THEN text = value.s
           ELSE text = <<"|">> \o EscapedBody(value.s) \o <<"|">>
        /\ value.s = <<>> => text = <<"|", "|">>
        /\ value.s = <<"a", " ", "a">> => text = <<"|", "a", "\\", " ", "a", "|">>
        /\ value.s = <<")", "|", "(">> => text = <<"|", "\\", ")", "\\", "|", "\\", "(", "|">>

SymbolPrintingWitness ==
    /\ pc = "printed"
    /\ value = Sym(<<")", "|", "(">>)
    /\ text = <<"|", "\\", ")", "\\", "|", "\\", "(", "|">>

\* C5: in a list two consecutive values need whitespace between them: with
\* the separator removed the text fails to parse (two bare symbols run
\* together into one symbol, so the list is not read back either); with any
\* non-empty whitespace as the separator, and with no whitespace next to the
\* parentheses, the list is read back.
Bare(v) == v.t = "Sym" /\ v.s # <<>> /\ \A i \in 1..Len(v.s) : doesnt_need_quoting(v.s[i])

BetweenElements == layout.gap >= 1 /\ layout.gap < Len(value.l)

SeparatorRequired ==
    (pc = "parsed" /\ BetweenElements) =>
        IF layout.run = <<>>
        THEN /\ parsed # ROk(value)
             /\ ~(Bare(value.l[layout.gap]) /\ Bare(value.l[layout.gap + 1]))
                    => parsed.tag = "ParseFailed"
        ELSE parsed = ROk(value)

NoSpaceAtParens ==
    (pc = "parsed" /\ layout.run = <<>> /\ ~BetweenElements) => parsed = ROk(value)

ListSeparation == SeparatorRequired /\ NoSpaceAtParens

ListSeparationWitness ==
    /\ pc = "parsed"
    /\ BetweenElements
    /\ layout.run = <<>>
    /\ Bare(value.l[layout.gap])
    /\ value.l[layout.gap + 1].t = "Sym"
    /\ ~Bare(value.l[layout.gap + 1])
    /\ parsed.tag = "ParseFailed"

\* C18: whitespace directly after the open parenthesis of a list or directly
\* before its close parenthesis is ParseFailed: ( ), ( a), (a ) and (a b ).
NoPaddingInList ==
    pc = "parsed" =>
        /\ (layout.run # <<>> /\ ~BetweenElements) => parsed.tag = "ParseFailed"
        /\ text \in {<<"(", " ", ")">>, <<"(", " ", "a", ")">>, <<"(", "a", " ", ")">>,
                      <<"(", "a", " ", "a", " ", ")">>, <<"(", "\n", "a", " ", "a", ")">>}
              => parsed.tag = "ParseFailed"

NoPaddingInListWitness ==
    /\ pc = "parsed"
    /\ text = <<"(", "a", " ", "a", " ", ")">>
    /\ parsed.tag = "ParseFailed"

\* the texts ts joined by single spaces
RECURSIVE Joined(_)
Joined(ts) ==
    IF ts = <<>> THEN <<>>
    ELSE IF Len(ts) = 1 THEN ts[1]
    ELSE ts[1] \o <<" ">> \o Joined(Tail(ts))

\* C16: a List prints as an open parenthesis, its printed children in order
\* joined by exactly one space with no space after the open or before the
\* close parenthesis, and a close parenthesis; the empty List prints as ().
ListPrinting ==
    (pc = "printed" /\ value.t = "List") =>
        /\ text = <<"(">> \o Joined([i \in 1..Len(value.l) |-> to_string(value.l[i])]) \o <<")">>
        /\ value.l = <<>> => text = <<"(", ")">>
        /\ Len(text) = 2 + Len(value.l) - (IF value.l = <<>> THEN 0 ELSE 1)
                        + Len(Concat([i \in 1..Len(value.l) |-> to_string(value.l[i])]))
        /\ value = List(<<Sym(<<"a">>), List(<<>>), Sym(<<>>)>>)
              => text = <<"(", "a", " ", "(", ")", " ", "|", "|", ")">>

ListPrintingWitness ==
    /\ pc = "printed"
    /\ value = List(<<Sym(<<"a">>), List(<<>>), Sym(<<>>)>>)
    /\ text = <<"(", "a", " ", "(", ")", " ", "|", "|", ")">>

\* the position of the first vertical bar after position i that no backslash
\* escapes, 0 when there is none
RECURSIVE ClosingBar(_, _)
ClosingBar(s, i) ==
    IF i > Len(s) THEN 0
    ELSE IF s[i] = "\\" THEN (IF i + 1 > Len(s) THEN 0 ELSE ClosingBar(s, i + 2))
    ELSE IF s[i] = "|" THEN i
    ELSE ClosingBar(s, i + 1)

\* the content that the body b of an escaped symbol denotes: each backslash
\* stands for the character after it; not ok when a quoting-significant
\* character stands unescaped or a backslash ends the body
RECURSIVE Denoted(_)
Denoted(b) ==
    IF b = <<>> THEN [ok |-> TRUE, s |-> <<>>]
    ELSE IF Head(b) = "\\"
         THEN IF Len(b) = 1 THEN [ok |-> FALSE, s |-> <<>>]
              ELSE LET r == Denoted(SubSeq(b, 3, Len(b)))
                   IN [ok |-> r.ok, s |-> <<b[2]>> \o r.s]
    ELSE IF Head(b) \in QuotingSignificant THEN [ok |-> FALSE, s |-> <<>>]
    ELSE LET r == Denoted(Tail(b)) IN [ok |-> r.ok, s |-> <<Head(b)>> \o r.s]

\* C14: inside an escaped symbol a backslash followed by any character c
\* stands for c, whether or not c is quoting-significant; a backslash with
\* nothing after it, or an escaped symbol without its closing bar, is
\* ParseFailed.
EscapeAnyCharacter ==
    (pc = "parsed" /\ text # <<>> /\ text[1] = "|") =>
        LET close == ClosingBar(text, 2)
            body == SubSeq(text, 2, Len(text) - 1)
        IN /\ close = 0 => parsed.tag = "ParseFailed"
           /\ (close = Len(text) /\ Denoted(body).ok) => parsed = ROk(Sym(Denoted(body).s))
           /\ \A c \in Chars : text = <<"|", "\\", c, "|">> => parsed = ROk(Sym(<<c>>))
           /\ text = <<"|", "a", "\\">> => parsed.tag = "ParseFailed"
           /\ text = <<"|", "a", "\\", "|">> => parsed.tag = "ParseFailed"

EscapeAnyCharacterWitness ==
    /\ pc = "parsed"
    /\ text = <<"|", "\\", "a", "|">>
    /\ parsed = ROk(Sym(<<"a">>))

RECURSIVE HasEmptySym(_)
HasEmptySym(v) ==
    IF v.t = "Sym" THEN v.s = <<>>
    ELSE \E i \in 1..Len(v.l) : HasEmptySym(v.l[i])

\* the text without the whitespace around it
Trimmed(s) ==
    LET inside == {i \in 1..Len(s) : s[i] \notin {" ", "\n"}}
    IN IF inside = {} THEN <<>>
       ELSE SubSeq(s, CHOOSE i \in inside : \A j \in inside : i <= j,
                      CHOOSE i \in inside : \A j \in inside : i >= j)

\* C15: a bare symbol has at least one character: the empty text and a text
\* of whitespace only are ParseFailed, || parses to the empty Symbol, and an
\* empty Symbol is only ever parsed from two adjacent vertical bars.
EmptySymbolOnlyEscaped ==
    pc = "parsed" =>
        /\ Trimmed(text) = <<>> => parsed.tag = "ParseFailed"
        /\ Trimmed(text) = <<"|", "|">> => parsed = ROk(Sym(<<>>))
        /\ parsed = ROk(Sym(<<>>)) => Trimmed(text) = <<"|", "|">>
        /\ (parsed.tag = "Ok" /\ HasEmptySym(parsed.v))
              => \E i \in 1..Len(text) - 1 : text[i] = "|" /\ text[i + 1] = "|"
        /\ (parsed.tag = "Ok" /\ parsed.v.t = "Sym" /\ Trimmed(text)[1] # "|")
              => /\ parsed.v.s # <<>>
                 /\ parsed.v.s = Trimmed(text)

EmptySymbolOnlyEscapedWitness ==
    /\ pc = "parsed"
    /\ text = <<" ", "|", "|">>
    /\ parsed = ROk(Sym(<<>>))

(***************************************************************************)
(* Claims of the deserializer and the serializer.                          *)
(***************************************************************************)
Done == pc = "done"

\* the document is what the serializer wrote for the datum
Unedited == value = to_value(typed, shape)

IsTuple(sh) == sh.k \in {"tuple", "tuple_struct"}

\* C4 (as claimed): a tuple or tuple struct of arity n is deserialized only
\* from a List of exactly n elements; a List that is shorter or longer
\* gives an error.
TupleArityChecked ==
    (Done /\ IsTuple(shape) /\ value.t = "List" /\ Len(value.l) # Len(shape.sub))
        => result.tag \notin {"Ok"}

\* r as the payload of the variant name
AsVariant(r, name, newtype) ==
    IF r.tag # "Ok" THEN r
    ELSE DOk(Typed("variant", name, 0, IF newtype THEN <<r.typed>> ELSE r.typed.items))

\* C6: for an enum, a Symbol selects the unit variant of that name; a
\* non-empty List names the variant by its first element and the remaining
\* elements are its payload: the one value of a newtype variant, the ordered
\* elements of a tuple variant, the [key, value] pairs of a struct variant;
\* the empty List is Invalid("enum", List[]).
EnumDeserialization ==
    (Done /\ shape.k = "enum") =>
        LET name == IF value.t = "Sym" THEN value
                    ELSE IF value.l # <<>> THEN Head(value.l) ELSE NoValue
            i == IF name.t = "Sym" THEN IndexOf(shape.names, name.s) ELSE 0
            var == shape.sub[i]
            rest == List(Tail(value.l))
        IN /\ value = List(<<>>) => result = Invalid("enum", List(<<>>))
           /\ (value.t = "Sym" /\ i # 0 /\ var.k = "unit_variant")
                 => result = DOk(Typed("variant", value.s, 0, <<>>))
           /\ (value.t = "List" /\ i # 0 /\ var.k = "newtype_variant" /\ Len(value.l) = 2)
                 => result = AsVariant(from_value(value.l[2], var.sub[1], debug), name.s, TRUE)
           /\ (value.t = "List" /\ i # 0 /\ var.k = "tuple_variant")
                 => result = AsVariant(from_value(rest, Shape("tuple", var.sub, <<>>), debug),
                                       name.s, FALSE)
           /\ (value.t = "List" /\ i # 0 /\ var.k = "struct_variant")
                 => result = AsVariant(from_value(rest, Shape("struct", var.sub, var.names),
                                                  debug),
                                       name.s, FALSE)
           /\ Unedited => result = DOk(typed)

EnumDeserializationWitness ==
    /\ Done
    /\ shape = Foo
    /\ value = List(<<Sym(<<"S">>), List(<<Sym(<<"f">>), Sym(<<"1">>)>>),
                      List(<<Sym(<<"g">>), Sym(<<"a">>)>>)>>)
    /\ result = DOk(Typed("variant", <<"S">>, 0,
                          <<Typed("u8", <<>>, 1, <<>>), Typed("char", <<"a">>, 0, <<>>)>>))

RECURSIVE Pow10(_)
Pow10(n) == IF n = 0 THEN 1 ELSE 10 * Pow10(n - 1)

AllDigits(d) ==
    /\ d # <<>>
    /\ \A j \in 1..Len(d) : d[j] \in {"0", "1", "2", "3", "4", "5", "6", "7", "8", "9"}

\* the number a run of digits denotes: each digit times the power of its place
Magnitude(d) ==
    LET sum[j \in 1..Len(d) + 1] ==
            IF j > Len(d) THEN 0 ELSE DigitVal(d[j]) * Pow10(Len(d) - j) + sum[j + 1]
    IN sum[1]

\* whether the text s is a literal of the primitive shape named k
ValidLiteral(k, s) ==
    CASE k = "bool" -> s \in {<<"t", "r", "u", "e">>, <<"f", "a", "l", "s", "e">>}
      [] k = "char" -> Len(s) = 1
      [] k = "i8" ->
            LET d == IF s # <<>> /\ Head(s) \in {"+", "-"} THEN Tail(s) ELSE s
            IN /\ AllDigits(d)
               /\ Magnitude(d) <= (IF Head(s) = "-" THEN 128 ELSE 127)
      [] k = "u8" ->
            LET d == IF s # <<>> /\ Head(s) = "+" THEN Tail(s) ELSE s
                place(j) == IF j = Len(d) THEN 1 ELSE IF j = Len(d) - 1 THEN 10 ELSE 100
            IN /\ d # <<>>
               /\ \A j \in 1..Len(d) : d[j] \in {"0", "1", "2", "3", "4", "5", "6", "7", "8", "9"}
               /\ \A j \in 1..Len(d) - 3 : d[j] = "0"
               /\ LET m == IF Len(d) > 3 THEN Len(d) - 2 ELSE 1
                      sum[j \in m..Len(d) + 1] ==
                          IF j > Len(d) THEN 0 ELSE DigitVal(d[j]) * place(j) + sum[j + 1]
                  IN sum[m] <= 255
      [] OTHER -> TRUE

IsPair(v) == v.t = "List" /\ Len(v.l) = 2

\* C7 (as claimed): each type error is Invalid(name of the requested shape,
\* the offending subtree): a primitive asked of a List or of a symbol that
\* is no literal of it, a sequence or map asked of a Symbol, a map child
\* that is no pair, an enum asked of the empty List, and a List whose length
\* is not the arity of the tuple asked for.
InvalidOutsideArity ==
    Done =>
        /\ (shape.k \in {"bool", "u8", "char", "string"}
               /\ (value.t = "List" \/ ~ValidLiteral(shape.k, value.s)))
              => result = Invalid(shape.k, value)
        /\ (shape.k \in {"seq", "tuple", "tuple_struct"} /\ value.t = "Sym")
              => result = Invalid("sequence", value)
        /\ (shape.k \in {"map", "struct"} /\ value.t = "Sym")
              => result = Invalid("map", value)
        /\ (shape.k \in {"map", "struct"} /\ value.t = "List" /\ value.l # <<>>
               /\ ~IsPair(value.l[1]))
              => result = Invalid("pair", value.l[1])
        /\ (shape.k = "enum" /\ value = List(<<>>))
              => result = Invalid("enum", value)

InvalidOnArity ==
    (Done /\ IsTuple(shape) /\ value.t = "List" /\ Len(value.l) # Len(shape.sub))
        => result.tag = "Invalid"

TypeErrorsAreInvalid == InvalidOutsideArity /\ InvalidOnArity

Present(r) == IF r.tag # "Ok" THEN r ELSE DOk(Typed("some", <<>>, 0, <<r.typed>>))

\* C8: for an optional shape the empty List is None; any other Value is
\* Some of the deserialization of that same Value against the wrapped shape.
OptionDeserialization ==
    (Done /\ shape.k = "option") =>
        /\ IF value = List(<<>>)
           THEN result = DOk(Typed("none", <<>>, 0, <<>>))
           ELSE result = Present(from_value(value, shape.sub[1], debug))
        /\ (shape = Option(Str) /\ value.t = "Sym")
              => result = DOk(Typed("some", <<>>, 0, <<Typed("string", value.s, 0, <<>>)>>))
        /\ (Unedited /\ value # List(<<>>)) => result = DOk(typed)

OptionDeserializationWitness ==
    /\ Done
    /\ shape = Option(Vec(U8))
    /\ value = List(<<Sym(<<"4", "2">>)>>)
    /\ result = DOk(Typed("some", <<>>, 0,
                          <<Typed("seq", <<>>, 0, <<Typed("u8", <<>>, 42, <<>>)>>)>>))

\* the datum that an absent optional, a unit and an empty sequence are
EmptyOf(sh) ==
    CASE sh.k = "option" -> Typed("none", <<>>, 0, <<>>)
      [] sh.k = "seq" -> Typed("seq", <<>>, 0, <<>>)
      [] OTHER -> Typed(sh.k, <<>>, 0, <<>>)

HasEmpty(sh) == sh.k \in {"option", "unit", "unit_struct", "seq"}

\* C9: None, unit, a unit struct and an empty sequence all serialize to the
\* empty List and print as (), and the empty List deserializes against each
\* of these shapes to that shape's empty value.
AmbiguityBoundary ==
    /\ (pc = "value" /\ HasEmpty(shape) /\ typed = EmptyOf(shape))
          => (value = List(<<>>) /\ text = <<"(", ")">>)
    /\ (Done /\ HasEmpty(shape) /\ value = List(<<>>)) => result = DOk(EmptyOf(shape))

AmbiguityBoundaryWitness ==
    /\ Done
    /\ shape = Prim("unit_struct")
    /\ typed = EmptyOf(shape)
    /\ text = <<"(", ")">>
    /\ result = DOk(typed)

\* the children of l before the first one that is no pair
RECURSIVE PairPrefix(_)
PairPrefix(l) ==
    IF l = <<>> \/ ~IsPair(Head(l)) THEN <<>> ELSE <<Head(l)>> \o PairPrefix(Tail(l))

\* C10: a map or struct is deserialized from a List whose children are all
\* Lists of exactly 2 elements, read as [key, value] in list order; the first
\* child that is a Symbol or a List of another length fails the call with
\* Invalid("pair", that child) (unless an entry before it failed already),
\* and a Symbol in place of the List fails with Invalid("map", that Symbol).
MapDeserialization ==
    (Done /\ shape.k \in {"map", "struct"}) =>
        /\ value.t = "Sym" => result = Invalid("map", value)
        /\ value.t = "List" =>
              LET good == PairPrefix(value.l)
                  n == Len(good)
                  before == from_value(List(good), shape, debug)
                  key(j) == from_value(value.l[j].l[1], shape.sub[1], debug)
                  val(j) == from_value(value.l[j].l[2], shape.sub[2], debug)
              IN /\ n < Len(value.l) =>
                      /\ result.tag # "Ok"
                      /\ result = Invalid("pair", value.l[n + 1])
                            \/ (before.tag # "Ok" /\ result = before)
                      /\ before.tag = "Ok" => result = Invalid("pair", value.l[n + 1])
                 /\ (shape.k = "map" /\ n = Len(value.l)
                        /\ \A j \in 1..n : key(j).tag = "Ok" /\ val(j).tag = "Ok")
                       => result = DOk(Typed("map", <<>>, 0,
                              [j \in 1..n |->
                                  Typed("entry", <<>>, 0, <<key(j).typed, val(j).typed>>)]))
        /\ Unedited => result = DOk(typed)

MapDeserializationWitness ==
    /\ Done
    /\ shape.k = "map"
    /\ value.t = "List"
    /\ Len(value.l) = 2
    /\ IsPair(value.l[1])
    /\ value.l[2].t = "List"
    /\ Len(value.l[2].l) = 3
    /\ result = Invalid("pair", value.l[2])

\* the value a literal s of the primitive shape named k denotes
LiteralValue(k, s) ==
    LET d == IF s # <<>> /\ Head(s) \in {"+", "-"} THEN Tail(s) ELSE s
    IN CASE k = "bool" -> Typed("bool", <<>>, IF Head(s) = "t" THEN 1 ELSE 0, <<>>)
         [] k = "u8" -> Typed("u8", <<>>, Magnitude(d), <<>>)
         [] k = "i8" ->
               Typed("i8", <<>>, IF Head(s) = "-" THEN 0 - Magnitude(d) ELSE Magnitude(d), <<>>)
         [] OTHER -> Typed(k, s, 0, <<>>)

\* C11: a primitive shape asked of a List is Invalid(shape name, that List);
\* asked of a Symbol it is the value the symbol's text denotes as a literal
\* of the shape, and Invalid(shape name, that Symbol) when the text is no
\* such literal: abc as an integer, the empty symbol or a two-character
\* symbol as a char.
PrimitiveDeserialization ==
    (Done /\ shape \in PrimShapes) =>
        /\ value.t = "List" => result = Invalid(shape.k, value)
        /\ value.t = "Sym" =>
              IF ValidLiteral(shape.k, value.s)
              THEN result = DOk(LiteralValue(shape.k, value.s))
              ELSE result = Invalid(shape.k, value)
        /\ (shape \in {U8, I8} /\ value = Sym(<<"a", "b", "c">>))
              => result = Invalid(shape.k, value)
        /\ (shape = Char /\ value \in {Sym(<<>>), Sym(<<"a", "a">>)})
              => result = Invalid("char", value)
        /\ (shape = I8 /\ value = Sym(<<"-", "1", "2", "8">>))
              => result = DOk(Typed("i8", <<>>, -128, <<>>))
        /\ (shape = Str /\ value.t = "Sym") => result = DOk(Typed("string", value.s, 0, <<>>))

PrimitiveDeserializationWitness ==
    /\ Done
    /\ shape = Char
    /\ value = Sym(<<"a", "a">>)
    /\ result = Invalid("char", value)

Serialized == pc = "value"

\* C12: an enum variant serializes to Symbol(name) when it has no payload, to
\* List [Symbol(name), payload] when it has one unnamed payload, to
\* List [Symbol(name), payload1, ..., payloadN] in declaration order when it
\* is a tuple variant, and to List [Symbol(name), [key1, value1], ...,
\* [keyN, valueN]] in declaration order when it has named fields.
VariantSerialization ==
    (Serialized /\ shape.k = "enum") =>
        LET var == shape.sub[IndexOf(shape.names, typed.s)]
            name == Sym(typed.s)
            payload(j) == to_value(typed.items[j], var.sub[j])
            n == Len(var.sub)
        IN /\ var.k = "unit_variant" => value = name
           /\ var.k = "newtype_variant" => value = List(<<name, payload(1)>>)
           /\ var.k = "tuple_variant" => value = List(<<name>> \o [j \in 1..n |-> payload(j)])
           /\ var.k = "struct_variant" =>
                 value = List(<<name>>
                              \o [j \in 1..n |-> List(<<Sym(var.names[j]), payload(j)>>)])
           /\ typed.s = <<"U">> => text = <<"U">>
           /\ (typed.s = <<"N">> /\ typed.items[1].n = 42)
                 => text = <<"(", "N", " ", "4", "2", ")">>
           /\ (typed.s = <<"T">> /\ typed.items[1].n = 1 /\ typed.items[2].s = <<"a">>)
                 => text = <<"(", "T", " ", "1", " ", "a", ")">>
           /\ (typed.s = <<"S">> /\ typed.items[1].n = 1 /\ typed.items[2].s = <<"a">>)
                 => text = <<"(", "S", " ", "(", "f", " ", "1", ")", " ",
                             "(", "g", " ", "a", ")", ")">>

VariantSerializationWitness ==
    /\ Serialized
    /\ shape = Foo
    /\ typed = Typed("variant", <<"T">>, 0,
                     <<Typed("u8", <<>>, 42, <<>>), Typed("char", <<"1">>, 0, <<>>)>>)
    /\ value = List(<<Sym(<<"T">>), Sym(<<"4", "2">>), Sym(<<"1">>)>>)

\* C13: a map or struct of n entries serializes to a List of exactly n
\* children, the j-th being the 2-element List [mapping of the j-th key,
\* mapping of the j-th value], and the serializer ends with no pending key.
MapSerialization ==
    (Serialized /\ shape.k \in {"map", "struct"}) =>
        LET n == Len(typed.items)
            key(j) == IF shape.k = "map"
                      THEN to_value(typed.items[j].items[1], shape.sub[1])
                      ELSE Sym(shape.names[j])
            val(j) == IF shape.k = "map"
                      THEN to_value(typed.items[j].items[2], shape.sub[2])
                      ELSE to_value(typed.items[j], shape.sub[j])
            end == IF shape.k = "map"
                   THEN serialize_entries(MapSerializer(<<>>, NoValue), typed.items, shape, 1)
                   ELSE serialize_fields(MapSerializer(<<>>, NoValue), typed.items, shape, 1)
        IN /\ value.t = "List"
           /\ Len(value.l) = n
           /\ \A j \in 1..n : value.l[j] = List(<<key(j), val(j)>>)
           /\ end.key = NoValue
           /\ (shape.k = "map" /\ n = 2
                  /\ typed.items[1].items = <<Typed("char", <<"a">>, 0, <<>>),
                                              Typed("u8", <<>>, 42, <<>>)>>
                  /\ typed.items[2].items = <<Typed("char", <<"1">>, 0, <<>>),
                                              Typed("u8", <<>>, 1, <<>>)>>)
                 => text = <<"(", "(", "a", " ", "4", "2", ")", " ", "(", "1", " ", "1", ")", ")">>
           /\ (shape.k = "struct" /\ typed.items[1].n = 1 /\ typed.items[2].s = <<"a">>)
                 => text = <<"(", "(", "f", " ", "1", ")", " ", "(", "g", " ", "a", ")", ")">>

MapSerializationWitness ==
    /\ Serialized
    /\ shape.k = "map"
    /\ Len(typed.items) = 2
    /\ typed.items[1] # typed.items[2]
    /\ value = List(<<List(<<Sym(<<"a">>), Sym(<<"4", "2">>)>>),
                      List(<<Sym(<<"1">>), Sym(<<"1">>)>>)>>)

\* C17 (as claimed): deserializing any Value against an enum returns a typed
\* value or an Error and never aborts; so does a Symbol that names a variant
\* with a payload, and a List [name] or [name, a, b] for a newtype variant.
EnumNeverAborts ==
    (Done /\ shape.k = "enum") =>
        /\ result.tag \in {"Ok", "Invalid", "Custom"}
        /\ (value.t = "Sym" /\ value.s \in {<<"N">>, <<"T">>, <<"S">>})
              => result.tag \in {"Invalid", "Custom"}
        /\ (value.t = "List" /\ value.l # <<>> /\ value.l[1] = Sym(<<"N">>)
               /\ Len(value.l) \in {1, 3})
              => result.tag \in {"Invalid", "Custom"}

\* C19 (as claimed): for every x, to_value(Some(x)) deserializes as an
\* optional to Some(x) when the mapping of x is not the empty List, and to
\* None when it is.
PresentOptionalRoundTrip ==
    (Done /\ shape.k = "option" /\ typed.k = "some") =>
        IF to_value(typed.items[1], shape.sub[1]) # List(<<>>)
        THEN result = DOk(typed)
        ELSE result = DOk(Typed("none", <<>>, 0, <<>>))

\* whether the datum x of shape sh holds, at any depth, a present optional
\* whose content maps to the empty List
RECURSIVE HoldsEmptyPresent(_, _)
HoldsEmptyPresent(x, sh) ==
    CASE sh.k = "option" ->
            /\ x.k = "some"
            /\ \/ to_value(x.items[1], sh.sub[1]) = List(<<>>)
               \/ HoldsEmptyPresent(x.items[1], sh.sub[1])
      [] sh.k \in {"seq", "newtype_struct"} ->
            \E i \in 1..Len(x.items) : HoldsEmptyPresent(x.items[i], sh.sub[1])
      [] sh.k = "map" ->
            \E i \in 1..Len(x.items), j \in 1..2 :
                HoldsEmptyPresent(x.items[i].items[j], sh.sub[j])
      [] sh.k \in {"tuple", "tuple_struct", "struct"} ->
            \E i \in 1..Len(x.items) : HoldsEmptyPresent(x.items[i], sh.sub[i])
      [] sh.k = "enum" ->
            \E i \in 1..Len(x.items) :
                HoldsEmptyPresent(x.items[i], sh.sub[IndexOf(sh.names, x.s)].sub[i])
      [] OTHER -> FALSE

\* C19 (amended): to_value(Some(x)) deserializes as an optional to None when
\* the mapping of x is the empty List; otherwise to Some of what the mapping
\* of x deserializes to against the wrapped shape, which is Some(x) whenever
\* x itself comes back from its mapping, as every x does that holds no
\* present optional whose content maps to the empty List.
PresentOptionalRoundTripOfFaithful ==
    (Done /\ shape.k = "option" /\ typed.k = "some") =>
        LET x == typed.items[1]
            inner == from_value(to_value(x, shape.sub[1]), shape.sub[1], debug)
        IN IF to_value(x, shape.sub[1]) = List(<<>>)
           THEN result = DOk(Typed("none", <<>>, 0, <<>>))
           ELSE /\ inner.tag = "Ok"
                /\ result = DOk(Typed("some", <<>>, 0, <<inner.typed>>))
                /\ inner = DOk(x) => result = DOk(typed)
                /\ ~HoldsEmptyPresent(x, shape.sub[1]) => result = DOk(typed)

PresentOptionalRoundTripWitness ==
    /\ Done
    /\ shape = Option(Vec(U8))
    /\ typed = Typed("some", <<>>, 0, <<Typed("seq", <<>>, 0, <<>>)>>)
    /\ value = List(<<>>)
    /\ result = DOk(Typed("none", <<>>, 0, <<>>))

====
